---- MODULE Spec2Model ----
(***************************************************************************)
(* Model of the Huobi exchange adapter (src/api/huobi.go).                 *)
(*                                                                         *)
(* Program state: the adapter's main stock (option.MainStock) and its      *)
(* per-period candlestick cache (records).  Every public operation is one  *)
(* action; the HTTP collaborator's answer is an input of the action.  The  *)
(* remaining variables record the call that was just made: its arguments,  *)
(* the HTTP requests it issued, the answer it got, what it logged, what it *)
(* returned and the adapter state it started from.  Where GetRecords is    *)
(* called from several goroutines, threads holds each goroutine's position *)
(* and locals, and overlapped tells whether two calls ever ran at once.    *)
(***************************************************************************)
EXTENDS Integers, Sequences, FiniteSets, TLC

VARIABLES mainStock, records, call, pre, sent, resp, logs, ret, fault,
          threads, overlapped

vars == <<mainStock, records, call, pre, sent, resp, logs, ret, fault,
          threads, overlapped>>

(* ------------------------------ bounds --------------------------------- *)

\* candle timestamps the vendor serves are 1..MaxTime (minutes)
MaxTime == 3

\* explicit size arguments of GetRecords range over -1..MaxCap
MaxCap == 2

(* ------------------------- program constants --------------------------- *)

DefaultSize == 200

DefaultDepth == 20

TimePrefixLen == 12

\* length of the vendor's compact datetime string: yyyymmddHHMMSSmmm
TimeStringLen == 17

stockMap == [BTC |-> "1", LTC |-> "2"]

periodMap ==
    [M |-> "001", M5 |-> "005", M15 |-> "015", M30 |-> "030",
     H |-> "060", D |-> "100", W |-> "200"]

orderTypeMap == ("1" :> 1) @@ ("2" :> (0 - 1)) @@ ("3" :> 2) @@ ("4" :> (0 - 2))

host == "https://api.huobi.com/apiv3"

\* option.AccessKey and option.SecretKey of the adapter under study
AccessKey == "AK"

SecretKey == "SK"

(* --------------------------- input domains ----------------------------- *)

\* symbols and periods callers pass; ETH and Y are not supported
StockTypes == {"BTC", "LTC", "ETH"}

Periods == {"M", "Y"}

\* the variadic sizes argument: absent, or one explicit size
SizesArgs == {<<>>} \cup {<<n>> : n \in (0 - 1)..MaxCap}

Times == 1..MaxTime

\* the values a bar carries; a later fetch of the same bar may revise them
Revisions == {0, 1}

(* ------------------------- vendor kline payload ------------------------ *)

\* the vendor's datetime string of minute t: TimeStringLen characters, of
\* which the first TimePrefixLen are the digits of the minute
TimeString(t) == [len |-> TimeStringLen, minute |-> t, rest |-> 0]

\* one bar of the kline array: [time, open, high, low, close, volume]
KlineBar(t, r) == <<TimeString(t), r, r, r, r, r>>

RECURSIVE NewestFirst(_)
\* the bars of the minutes in S, newest first, as the vendor sends them
NewestFirst(S) ==
    IF S = {} THEN <<>>
    ELSE LET m == CHOOSE x \in S : \A y \in S : y <= x
         IN <<m>> \o NewestFirst(S \ {m})

KlineArray(S, r) ==
    LET ts == NewestFirst(S) IN [i \in 1..Len(ts) |-> KlineBar(ts[i], r)]

KlineArrays == {KlineArray(S, r) : S \in SUBSET Times, r \in Revisions}

\* a JSON scalar as the decoder hands it over
JsonNumber(n) == [t |-> "number", v |-> n]

JsonString(str) == [t |-> "string", v |-> str]

JsonNull == [t |-> "null"]

NoResp == [kind |-> "none"]

TransportError == [kind |-> "error"]

Malformed == [kind |-> "malformed"]

KlineResponses ==
    {TransportError, Malformed} \cup {[kind |-> "json", body |-> a] : a \in KlineArrays}

\* a short range of minutes, for the specifications that need few bars
SmallTimes == {1, 2}

SmallArrays == {KlineArray(S, r) : S \in SUBSET SmallTimes, r \in Revisions}

SmallResponses ==
    {TransportError, Malformed} \cup {[kind |-> "json", body |-> a] : a \in SmallArrays}

\* a datetime string cut short by the vendor: fewer characters than the prefix
ShortTimeString == [len |-> 8, minute |-> 0, rest |-> 0]

ShortBar(r) == <<ShortTimeString, r, r, r, r, r>>

\* kline arrays whose newest or oldest bar has a short datetime string
FaultyArrays ==
    UNION {{<<ShortBar(r)>> \o KlineArray(S, r), KlineArray(S, r) \o <<ShortBar(r)>>} :
              S \in SUBSET SmallTimes, r \in Revisions}

FaultyResponses == {[kind |-> "json", body |-> a] : a \in FaultyArrays}

\* the sizes argument of GetTicker
DepthSizesArgs == {<<>>, <<5>>, <<50>>}

\* one side of the order book: [price, amount] pairs, best price first
BidSides == {<<>>, <<<<10, 1>>, <<8, 2>>>>}

AskSides == {<<>>, <<<<12, 1>>, <<14, 3>>>>}

DepthResponses ==
    {TransportError, Malformed} \cup
    {[kind |-> "json", bids |-> b, asks |-> a] : b \in BidSides, a \in AskSides}

\* status codes of vendor responses; a response without one reads as 0
Codes == {0 - 1, 0, 1}

\* order identifiers as the vendor sends them: numeric, textual or absent
JsonIds == {JsonNumber(7), JsonString("a7"), JsonNull}

\* the second at which a request is signed
MaxClock == 2

Clock == 1..MaxClock

Prices == {0, 10}

Amounts == {1}

OrderIds == {"7"}

AccountResponses ==
    {TransportError, Malformed} \cup
    {[kind |-> "json", code |-> c, total |-> 100, net_asset |-> 90,
      available_cny_display |-> 50, frozen_cny_display |-> 5,
      available_btc_display |-> 3, frozen_btc_display |-> 1,
      available_ltc_display |-> 7, frozen_ltc_display |-> 2] : c \in Codes}

TradeResponses ==
    {TransportError, Malformed} \cup
    {[kind |-> "json", code |-> c, id |-> i] : c \in Codes, i \in JsonIds}

OrderJsons ==
    {[id |-> i, order_price |-> 10, order_amount |-> 2, processed_amount |-> 1,
      type |-> t] : i \in {JsonNumber(7), JsonString("a7")}, t \in {"2", "9"}}

OrderResponses ==
    {TransportError, Malformed} \cup
    {[kind |-> "json", code |-> c, order |-> o] : c \in Codes, o \in OrderJsons}

CancelResponses ==
    {TransportError, Malformed} \cup
    {[kind |-> "json", code |-> c, result |-> r] : c \in Codes, r \in {"success", "fail"}}

\* an order list answer is a JSON array (no code field) or an error object
OrderListResponses ==
    {TransportError, Malformed} \cup
    {[kind |-> "json", code |-> c, items |-> <<>>] : c \in Codes} \cup
    {[kind |-> "json", code |-> 0, items |-> <<o>>] : o \in OrderJsons} \cup
    {[kind |-> "json", code |-> 0,
      items |-> <<[id |-> JsonNumber(7), order_price |-> 10, order_amount |-> 2,
                   processed_amount |-> 1, type |-> "1"],
                  [id |-> JsonNumber(8), order_price |-> 12, order_amount |-> 3,
                   processed_amount |-> 0, type |-> "4"]>>]}

\* the orders callers hand to CancelOrder
OrderArgs ==
    {[ID |-> i, Price |-> 10, Amount |-> 2, DealAmount |-> 1, OrderType |-> 1,
      StockType |-> st] : i \in OrderIds, st \in {"BTC", "LTC", "ETH"}}

(* ------------------------------ helpers -------------------------------- *)

\* recordJSON.GetIndex(0).MustString(...)[:12] cannot be sliced when the
\* string is shorter than the prefix
TimeFault(recordJSON) == recordJSON[1].len < TimePrefixLen

\* the integer value of the first TimePrefixLen characters of the time string
RecordTime(recordJSON) == recordJSON[1].minute

NewRecord(recordJSON) ==
    [Time |-> RecordTime(recordJSON), Open |-> recordJSON[2], High |-> recordJSON[3],
     Low |-> recordJSON[4], Close |-> recordJSON[5], Volume |-> recordJSON[6]]

LogEntry(tag, price, amount) == [tag |-> tag, price |-> price, amount |-> amount]

ErrorLog == <<LogEntry("error", 0, 0)>>

HttpGet(url) == [verb |-> "GET", url |-> url, params |-> <<>>]

\* a reader that never finds a last known timestamp
TimeLastNone(window) == 0

TimeLast(window) == IF Len(window) > 0 THEN window[Len(window)].Time ELSE 0

RECURSIVE WalkForward(_, _, _, _, _)
\* the same loop running from the first element of the array to its last
WalkForward(array, i, timeLast, window, recordsNew) ==
    IF i = 0 THEN [window |-> window, recordsNew |-> recordsNew, fault |-> FALSE]
    ELSE LET recordJSON == array[Len(array) - i + 1]
             recordTime == RecordTime(recordJSON)
         IN  IF TimeFault(recordJSON)
             THEN [window |-> window, recordsNew |-> recordsNew, fault |-> TRUE]
             ELSE IF recordTime > timeLast
             THEN WalkForward(array, i - 1, timeLast, window,
                              Append(recordsNew, NewRecord(recordJSON)))
             ELSE IF recordTime = timeLast
             THEN IF Len(window) = 0
                  THEN [window |-> window, recordsNew |-> recordsNew, fault |-> TRUE]
                  ELSE WalkForward(array, i - 1, timeLast,
                                   [window EXCEPT ![Len(window)] = NewRecord(recordJSON)],
                                   recordsNew)
             ELSE [window |-> window, recordsNew |-> recordsNew, fault |-> FALSE]

RECURSIVE Walk(_, _, _, _, _)
\* the loop over the kline array, from its last element to its first
Walk(array, i, timeLast, window, recordsNew) ==
    IF i = 0 THEN [window |-> window, recordsNew |-> recordsNew, fault |-> FALSE]
    ELSE LET recordJSON == array[i]
             recordTime == RecordTime(recordJSON)
         IN  IF TimeFault(recordJSON)
             THEN [window |-> window, recordsNew |-> recordsNew, fault |-> TRUE]
             ELSE IF recordTime > timeLast
             THEN Walk(array, i - 1, timeLast, window,
                       Append(recordsNew, NewRecord(recordJSON)))
             ELSE IF recordTime = timeLast
             THEN IF Len(window) = 0
                  THEN [window |-> window, recordsNew |-> recordsNew, fault |-> TRUE]
                  ELSE Walk(array, i - 1, timeLast,
                            [window EXCEPT ![Len(window)] = NewRecord(recordJSON)],
                            recordsNew)
             ELSE [window |-> window, recordsNew |-> recordsNew, fault |-> FALSE]

\* a merge that stores the new bars in place of the window
ReconcileAssign(window, array, size) ==
    LET w == Walk(array, Len(array), TimeLast(window), window, <<>>)
        merged == w.recordsNew
    IN  IF w.fault THEN [window |-> w.window, fault |-> TRUE]
        ELSE IF Len(merged) > size
        THEN IF size < 0 THEN [window |-> merged, fault |-> TRUE]
             ELSE [window |-> SubSeq(merged, 1, size), fault |-> FALSE]
        ELSE [window |-> merged, fault |-> FALSE]

\* a merge whose cut keeps one bar more than the size
ReconcileOffByOne(window, array, size) ==
    LET w == Walk(array, Len(array), TimeLast(window), window, <<>>)
        merged == w.window \o w.recordsNew
    IN  IF w.fault THEN [window |-> w.window, fault |-> TRUE]
        ELSE IF Len(merged) > size + 1
        THEN IF size + 1 < 0 THEN [window |-> merged, fault |-> TRUE]
             ELSE [window |-> SubSeq(merged, 1, size + 1), fault |-> FALSE]
        ELSE [window |-> merged, fault |-> FALSE]

\* the merge of a decoded kline array into a window, then the cut to size
Reconcile(window, array, size) ==
    LET w == Walk(array, Len(array), TimeLast(window), window, <<>>)
        merged == w.window \o w.recordsNew
    IN  IF w.fault THEN [window |-> w.window, fault |-> TRUE]
        ELSE IF Len(merged) > size
        THEN IF size < 0 THEN [window |-> merged, fault |-> TRUE]
             ELSE [window |-> SubSeq(merged, 1, size), fault |-> FALSE]
        ELSE [window |-> merged, fault |-> FALSE]

(* --------------------------- returned values --------------------------- *)

NilValue == [type |-> "nil"]

StringValue(str) == [type |-> "string", val |-> str]

BoolValue(b) == [type |-> "bool", val |-> b]

OrdersValue(orders) == [type |-> "Orders", val |-> orders]

RecordsValue(window) == [type |-> "Records", val |-> window]

\* a call that ended in a runtime panic returns nothing
NoValue == [type |-> "panic"]

(* ------------------------------- state --------------------------------- *)

\* the goroutines that may call GetRecords on the shared adapter
Threads == {"g1", "g2"}

\* a goroutine outside GetRecords: no fetched array, no loop index, no locals
Idle == [pc |-> "idle", array |-> <<>>, i |-> 0, timeLast |-> 0, recordsNew |-> <<>>]

\* the adapter NewHuobi builds from an option whose MainStock is configured
NewHuobi(configured) ==
    /\ mainStock = IF configured \in DOMAIN stockMap THEN configured ELSE "BTC"
    /\ records = [p \in DOMAIN periodMap |-> <<>>]
    /\ call = [op |-> "NewHuobi", MainStock |-> configured]
    /\ pre = [mainStock |-> mainStock, records |-> records]
    /\ sent = <<>>
    /\ resp = NoResp
    /\ logs = <<>>
    /\ ret = NilValue
    /\ fault = FALSE
    /\ threads = [t \in Threads |-> Idle]
    /\ overlapped = FALSE

Init == NewHuobi("BTC")

\* construction from any configured main stock
InitConfigured == \E configured \in StockTypes : NewHuobi(configured)

\* a call that leaves the adapter state alone
Returns(c, requests, answer, entries, value) ==
    /\ call' = c
    /\ pre' = [mainStock |-> mainStock, records |-> records]
    /\ sent' = requests
    /\ resp' = answer
    /\ logs' = entries
    /\ ret' = value
    /\ fault' = FALSE
    /\ UNCHANGED <<threads, overlapped>>
    /\ UNCHANGED <<mainStock, records>>

(* ----------------------------- GetRecords ------------------------------ *)

\* strings.ToLower on the supported symbols
ToLower == [BTC |-> "btc", LTC |-> "ltc"]

KlineUrl(stockType, period) ==
    [path |-> "staticmarket/kline", stock |-> ToLower[stockType],
     period |-> periodMap[period]]

\* a GetRecords that merges every timeframe against the minute window
GetRecordsFromShared(stockType, period, sizes, answers) ==
    LET c == [op |-> "GetRecords", stockType |-> stockType, period |-> period,
              sizes |-> sizes]
        size == IF Len(sizes) > 0 THEN sizes[1] ELSE DefaultSize
    IN  IF stockType \notin DOMAIN stockMap
        THEN Returns(c, <<>>, NoResp, ErrorLog, RecordsValue(<<>>))
        ELSE IF period \notin DOMAIN periodMap
        THEN Returns(c, <<>>, NoResp, ErrorLog, RecordsValue(<<>>))
        ELSE \E answer \in answers :
               LET request == <<HttpGet(KlineUrl(stockType, period))>>
               IN  IF answer.kind # "json"
                   THEN Returns(c, request, answer, ErrorLog, RecordsValue(<<>>))
                   ELSE LET m == Reconcile(records["M"], answer.body, size)
                        IN  /\ records' = [records EXCEPT ![period] = m.window]
                            /\ call' = c
                            /\ pre' = [mainStock |-> mainStock, records |-> records]
                            /\ sent' = request
                            /\ resp' = answer
                            /\ logs' = <<>>
                            /\ ret' = IF m.fault THEN NoValue ELSE RecordsValue(m.window)
                            /\ fault' = m.fault
                            /\ UNCHANGED <<threads, overlapped>>
                            /\ UNCHANGED mainStock

\* a GetRecords that answers a failed fetch with the cached window
GetRecordsFromStale(stockType, period, sizes, answers) ==
    LET c == [op |-> "GetRecords", stockType |-> stockType, period |-> period,
              sizes |-> sizes]
        size == IF Len(sizes) > 0 THEN sizes[1] ELSE DefaultSize
    IN  IF stockType \notin DOMAIN stockMap
        THEN Returns(c, <<>>, NoResp, ErrorLog, RecordsValue(<<>>))
        ELSE IF period \notin DOMAIN periodMap
        THEN Returns(c, <<>>, NoResp, ErrorLog, RecordsValue(<<>>))
        ELSE \E answer \in answers :
               LET request == <<HttpGet(KlineUrl(stockType, period))>>
               IN  IF answer.kind # "json"
                   THEN Returns(c, request, answer, ErrorLog,
                                RecordsValue(records[period]))
                   ELSE LET m == Reconcile(records[period], answer.body, size)
                        IN  /\ records' = [records EXCEPT ![period] = m.window]
                            /\ call' = c
                            /\ pre' = [mainStock |-> mainStock, records |-> records]
                            /\ sent' = request
                            /\ resp' = answer
                            /\ logs' = <<>>
                            /\ ret' = IF m.fault THEN NoValue ELSE RecordsValue(m.window)
                            /\ fault' = m.fault
                            /\ UNCHANGED <<threads, overlapped>>
                            /\ UNCHANGED mainStock

\* GetRecords when the HTTP collaborator may give any of the answers; the
\* window length the call prints to standard output is not kept
GetRecordsFrom(stockType, period, sizes, answers) ==
    LET c == [op |-> "GetRecords", stockType |-> stockType, period |-> period,
              sizes |-> sizes]
        size == IF Len(sizes) > 0 THEN sizes[1] ELSE DefaultSize
    IN  IF stockType \notin DOMAIN stockMap
        THEN Returns(c, <<>>, NoResp, ErrorLog, RecordsValue(<<>>))
        ELSE IF period \notin DOMAIN periodMap
        THEN Returns(c, <<>>, NoResp, ErrorLog, RecordsValue(<<>>))
        ELSE \E answer \in answers :
               LET request == <<HttpGet(KlineUrl(stockType, period))>>
               IN  IF answer.kind # "json"
                   THEN Returns(c, request, answer, ErrorLog, RecordsValue(<<>>))
                   ELSE LET m == Reconcile(records[period], answer.body, size)
                        IN  /\ records' = [records EXCEPT ![period] = m.window]
                            /\ call' = c
                            /\ pre' = [mainStock |-> mainStock, records |-> records]
                            /\ sent' = request
                            /\ resp' = answer
                            /\ logs' = <<>>
                            /\ ret' = IF m.fault THEN NoValue ELSE RecordsValue(m.window)
                            /\ fault' = m.fault
                            /\ UNCHANGED <<threads, overlapped>>
                            /\ UNCHANGED mainStock

GetRecords(stockType, period, sizes) ==
    GetRecordsFrom(stockType, period, sizes, KlineResponses)

RecordsCall ==
    \E stockType \in StockTypes, period \in Periods, sizes \in SizesArgs :
        GetRecords(stockType, period, sizes)

(* ------------------------------ GetTicker ------------------------------ *)

DepthUrl(stockType, size) ==
    [path |-> "staticmarket/depth", stock |-> ToLower[stockType], size |-> size]

MarketOrder(depthJSON) == [Price |-> depthJSON[1], Amount |-> depthJSON[2]]

Depths(depthsJSON) == [i \in 1..Len(depthsJSON) |-> MarketOrder(depthsJSON[i])]

\* prices are even numbers, so halving their sum is exact
Ticker(json) ==
    LET Bids == Depths(json.bids)
        Asks == Depths(json.asks)
    IN  [Bids |-> Bids, Asks |-> Asks, Buy |-> Bids[1].Price, Sell |-> Asks[1].Price,
         Mid |-> (Bids[1].Price + Asks[1].Price) \div 2]

TickerValue(ticker) == [type |-> "Ticker", val |-> ticker]

\* a ticker request that drops the cached windows
GetTickerResetting(stockType, sizes) ==
    /\ records' = [p \in DOMAIN periodMap |-> <<>>]
    /\ call' = [op |-> "GetTicker", stockType |-> stockType, sizes |-> sizes]
    /\ pre' = [mainStock |-> mainStock, records |-> records]
    /\ sent' = <<>>
    /\ resp' = NoResp
    /\ logs' = ErrorLog
    /\ ret' = NilValue
    /\ fault' = FALSE
    /\ UNCHANGED <<threads, overlapped>>
    /\ UNCHANGED mainStock

GetTicker(stockType, sizes) ==
    LET c == [op |-> "GetTicker", stockType |-> stockType, sizes |-> sizes]
        size == IF Len(sizes) > 0 /\ sizes[1] > DefaultDepth THEN sizes[1]
                ELSE DefaultDepth
    IN  IF stockType \notin DOMAIN stockMap
        THEN Returns(c, <<>>, NoResp, ErrorLog, NilValue)
        ELSE \E answer \in DepthResponses :
               LET request == <<HttpGet(DepthUrl(stockType, size))>>
               IN  IF answer.kind # "json"
                   THEN Returns(c, request, answer, ErrorLog, NilValue)
                   ELSE IF Len(answer.bids) < 1 \/ Len(answer.asks) < 1
                   THEN Returns(c, request, answer, ErrorLog, NilValue)
                   ELSE Returns(c, request, answer, <<>>, TickerValue(Ticker(answer)))

TickerCall ==
    \E stockType \in StockTypes, sizes \in DepthSizesArgs : GetTicker(stockType, sizes)

NextMarket == RecordsCall \/ TickerCall

SpecMarket == Init /\ [][NextMarket]_vars

(* --------------------------- request signing --------------------------- *)

Param(k, v) == [k |-> k, v |-> v]

\* the keys of all request parameters, in the byte order of their strings
KeyOrder ==
    <<"access_key", "amount", "coin_type", "created", "id", "market", "method",
      "price", "secret_key", "sign">>

Rank(k) == CHOOSE i \in 1..Len(KeyOrder) : KeyOrder[i] = k

\* "k=v" strings of one request have distinct keys, none a prefix of another,
\* so their string order is the order of their keys
StringLess(a, b) == Rank(a.k) < Rank(b.k)

RECURSIVE SortStrings(_)
SortStrings(params) ==
    IF params = <<>> THEN <<>>
    ELSE LET rest == SortStrings(Tail(params))
             n == Cardinality({i \in 1..Len(rest) : StringLess(rest[i], Head(params))})
         IN  SubSeq(rest, 1, n) \o <<Head(params)>> \o SubSeq(rest, n + 1, Len(rest))

\* the digest of the sorted parameter strings, as an injective symbol
signMd5(params) == [md5 |-> params]

\* a signer that takes the optional parameters into the signed set
getAuthJSONSignAll(url, params, optionals, now) ==
    LET all == SortStrings(params \o optionals
                           \o <<Param("access_key", AccessKey),
                                Param("secret_key", SecretKey),
                                Param("created", ToString(now))>>)
        signed == Append(all, Param("sign", signMd5(all)))
    IN  [verb |-> "POST", url |-> url, params |-> signed]

\* a signer that signs the parameters in the order they were assembled
getAuthJSONUnsorted(url, params, optionals, now) ==
    LET all == params \o <<Param("access_key", AccessKey),
                            Param("secret_key", SecretKey),
                            Param("created", ToString(now))>>
        signed == Append(all, Param("sign", signMd5(all)))
    IN  [verb |-> "POST", url |-> url, params |-> signed \o optionals]

\* the POST request getAuthJSON issues at second now
getAuthJSON(url, params, optionals, now) ==
    LET all == SortStrings(params \o <<Param("access_key", AccessKey),
                                       Param("secret_key", SecretKey),
                                       Param("created", ToString(now))>>)
        signed == Append(all, Param("sign", signMd5(all)))
    IN  [verb |-> "POST", url |-> url, params |-> signed \o optionals]

MarketCny == <<Param("market", "cny")>>

Url(path) == [host |-> host, path |-> path]

\* fmt.Sprint of a decoded JSON scalar
Sprint(j) ==
    IF j.t = "number" THEN ToString(j.v)
    ELSE IF j.t = "string" THEN j.v
    ELSE "<nil>"

\* e.stockMap[stockType]: the empty string for a symbol that is not a key
StockCode(stockType) ==
    IF stockType \in DOMAIN stockMap THEN stockMap[stockType] ELSE ""

\* e.orderTypeMap[t]: zero for a type that is not a key
OrderTypeCode(t) == IF t \in DOMAIN orderTypeMap THEN orderTypeMap[t] ELSE 0

NewOrder(orderJSON, stockType) ==
    [ID |-> Sprint(orderJSON.id), Price |-> orderJSON.order_price,
     Amount |-> orderJSON.order_amount, DealAmount |-> orderJSON.processed_amount,
     OrderType |-> OrderTypeCode(orderJSON.type), StockType |-> stockType]

(* ------------------------ GetMainStock / SetMainStock ------------------ *)

GetMainStock ==
    Returns([op |-> "GetMainStock"], <<>>, NoResp, <<>>, StringValue(mainStock))

\* a setter that stores the symbol without looking it up
SetMainStockUnchecked(stock) ==
    /\ mainStock' = stock
    /\ call' = [op |-> "SetMainStock", stock |-> stock]
    /\ pre' = [mainStock |-> mainStock, records |-> records]
    /\ sent' = <<>>
    /\ resp' = NoResp
    /\ logs' = <<>>
    /\ ret' = StringValue(mainStock')
    /\ fault' = FALSE
    /\ UNCHANGED <<threads, overlapped>>
    /\ UNCHANGED records

SetMainStock(stock) ==
    /\ mainStock' = IF stock \in DOMAIN stockMap THEN stock ELSE mainStock
    /\ call' = [op |-> "SetMainStock", stock |-> stock]
    /\ pre' = [mainStock |-> mainStock, records |-> records]
    /\ sent' = <<>>
    /\ resp' = NoResp
    /\ logs' = <<>>
    /\ ret' = StringValue(mainStock')
    /\ fault' = FALSE
    /\ UNCHANGED <<threads, overlapped>>
    /\ UNCHANGED records

MainStockCall == GetMainStock \/ \E stock \in StockTypes : SetMainStock(stock)

(* ------------------------------ GetAccount ----------------------------- *)

AccountValue(account) == [type |-> "Account", val |-> account]

\* a derivation that ignores the main stock and always copies the BTC pair
NewAccountAlwaysBTC(json, main) ==
    [Total |-> json.total, Net |-> json.net_asset,
     Balance |-> json.available_cny_display,
     FrozenBalance |-> json.frozen_cny_display,
     BTC |-> json.available_btc_display, FrozenBTC |-> json.frozen_btc_display,
     LTC |-> json.available_ltc_display, FrozenLTC |-> json.frozen_ltc_display,
     Stock |-> json.available_btc_display, FrozenStock |-> json.frozen_btc_display]

NewAccount(json, main) ==
    LET account ==
            [Total |-> json.total, Net |-> json.net_asset,
             Balance |-> json.available_cny_display,
             FrozenBalance |-> json.frozen_cny_display,
             BTC |-> json.available_btc_display, FrozenBTC |-> json.frozen_btc_display,
             LTC |-> json.available_ltc_display, FrozenLTC |-> json.frozen_ltc_display,
             Stock |-> 0, FrozenStock |-> 0]
    IN  IF main = "BTC"
        THEN [account EXCEPT !.Stock = account.BTC, !.FrozenStock = account.FrozenBTC]
        ELSE IF main = "LTC"
        THEN [account EXCEPT !.Stock = account.LTC, !.FrozenStock = account.FrozenLTC]
        ELSE account

GetAccount(now) ==
    LET c == [op |-> "GetAccount"]
        request == <<getAuthJSON(Url(""), <<Param("method", "get_account_info")>>,
                                 MarketCny, now)>>
    IN  \E answer \in AccountResponses :
            IF answer.kind # "json" THEN Returns(c, request, answer, ErrorLog, NilValue)
            ELSE IF answer.code > 0 THEN Returns(c, request, answer, ErrorLog, NilValue)
            ELSE Returns(c, request, answer, <<>>,
                         AccountValue(NewAccount(answer, mainStock)))

AccountCall == \E now \in Clock : GetAccount(now)

(* ------------------------------ Buy / Sell ----------------------------- *)

\* Buy and Sell differ in the method name, the log tag and nothing else
PlaceOrder(op, side, stockType, price, amount, now) ==
    LET c == [op |-> op, stockType |-> stockType, price |-> price, amount |-> amount]
    IN  IF stockType \notin DOMAIN stockMap
        THEN Returns(c, <<>>, NoResp, ErrorLog, StringValue(""))
        ELSE LET params ==
                     <<Param("coin_type", stockMap[stockType]), Param("amount", ToString(amount))>>
                     \o (IF price > 0 THEN <<Param("price", ToString(price)), Param("method", side)>>
                         ELSE <<Param("method", side \o "_market")>>)
                 request == <<getAuthJSON(Url(""), params, MarketCny, now)>>
             IN  \E answer \in TradeResponses :
                     IF answer.kind # "json"
                     THEN Returns(c, request, answer, ErrorLog, StringValue(""))
                     ELSE IF answer.code > 0
                     THEN Returns(c, request, answer, ErrorLog, StringValue(""))
                     ELSE Returns(c, request, answer, <<LogEntry(side, price, amount)>>,
                                  StringValue(Sprint(answer.id)))

Buy(stockType, price, amount, now) ==
    PlaceOrder("Buy", "buy", stockType, price, amount, now)

Sell(stockType, price, amount, now) ==
    PlaceOrder("Sell", "sell", stockType, price, amount, now)

BuyCall ==
    \E stockType \in StockTypes, price \in Prices, amount \in Amounts, now \in Clock :
        Buy(stockType, price, amount, now)

SellCall ==
    \E stockType \in StockTypes, price \in Prices, amount \in Amounts, now \in Clock :
        Sell(stockType, price, amount, now)

(* ------------------------- GetOrder / CancelOrder ---------------------- *)

OrderValue(order) == [type |-> "Order", val |-> order]

GetOrder(stockType, id, now) ==
    LET c == [op |-> "GetOrder", stockType |-> stockType, id |-> id]
        params == <<Param("method", "order_info"),
                    Param("coin_type", StockCode(stockType)), Param("id", id)>>
        request == <<getAuthJSON(Url(""), params, MarketCny, now)>>
    IN  \E answer \in OrderResponses :
            IF answer.kind # "json" THEN Returns(c, request, answer, ErrorLog, NilValue)
            ELSE IF answer.code > 0 THEN Returns(c, request, answer, ErrorLog, NilValue)
            ELSE Returns(c, request, answer, <<>>,
                         OrderValue(NewOrder(answer.order, stockType)))

CancelOrder(order, now) ==
    LET c == [op |-> "CancelOrder", order |-> order]
        params == <<Param("method", "cancel_order"),
                    Param("coin_type", StockCode(order.StockType)),
                    Param("id", order.ID)>>
        request == <<getAuthJSON(Url(""), params, MarketCny, now)>>
    IN  \E answer \in CancelResponses :
            IF answer.kind # "json"
            THEN Returns(c, request, answer, ErrorLog, BoolValue(FALSE))
            ELSE IF answer.code > 0
            THEN Returns(c, request, answer, ErrorLog, BoolValue(FALSE))
            ELSE IF answer.result = "success"
            THEN Returns(c, request, answer, <<LogEntry("cancel", 0, 0)>>, BoolValue(TRUE))
            ELSE Returns(c, request, answer, ErrorLog, BoolValue(FALSE))

OrderCall ==
    \E stockType \in StockTypes, id \in OrderIds, now \in Clock :
        GetOrder(stockType, id, now)

CancelCall == \E order \in OrderArgs, now \in Clock : CancelOrder(order, now)

(* ------------------------- GetOrders / GetTrades ----------------------- *)

\* GetOrders and GetTrades differ in the method name and the URL path
ListOrders(op, method, path, stockType, now) ==
    LET c == [op |-> op, stockType |-> stockType]
    IN  IF stockType \notin DOMAIN stockMap
        THEN Returns(c, <<>>, NoResp, ErrorLog, OrdersValue(<<>>))
        ELSE LET params == <<Param("method", method),
                             Param("coin_type", stockMap[stockType])>>
                 request == <<getAuthJSON(Url(path), params, <<>>, now)>>
             IN  \E answer \in OrderListResponses :
                     IF answer.kind # "json"
                     THEN Returns(c, request, answer, ErrorLog, OrdersValue(<<>>))
                     ELSE IF answer.code > 0
                     THEN Returns(c, request, answer, ErrorLog, OrdersValue(<<>>))
                     ELSE Returns(c, request, answer, <<>>,
                                  OrdersValue([i \in 1..Len(answer.items) |->
                                                  NewOrder(answer.items[i], stockType)]))

GetOrders(stockType, now) ==
    ListOrders("GetOrders", "get_orders", "order_info.do", stockType, now)

GetTrades(stockType, now) ==
    ListOrders("GetTrades", "get_new_deal_orders", "order_history.do", stockType, now)

OrdersCall == \E stockType \in StockTypes, now \in Clock : GetOrders(stockType, now)

TradesCall == \E stockType \in StockTypes, now \in Clock : GetTrades(stockType, now)

(* --------------------------- specifications ---------------------------- *)

NextTrade ==
    \/ MainStockCall
    \/ AccountCall
    \/ BuyCall
    \/ SellCall
    \/ OrderCall
    \/ CancelCall
    \/ OrdersCall
    \/ TradesCall

SpecTrade == Init /\ [][NextTrade]_vars

\* the whole operation surface; the properties below are checked under its
\* two halves, SpecMarket and SpecTrade, which share no state they change
Next == NextMarket \/ NextTrade

Spec == Init /\ [][Next]_vars

\* the authenticated operations on an adapter built from any configuration
SpecConfigured == InitConfigured /\ [][NextTrade]_vars

(* ------------------- GetRecords on ill-formed answers ------------------ *)

FaultyCall ==
    \E sizes \in SizesArgs :
        GetRecordsFrom("BTC", "M", sizes, SmallResponses \cup FaultyResponses)

NextFaulty == FaultyCall

SpecFaulty == Init /\ [][NextFaulty]_vars

(* ----------------------- getAuthJSON on its own ------------------------ *)

RECURSIVE Perms(_)
\* every order in which the parameters of S can be assembled
Perms(S) ==
    IF S = {} THEN {<<>>}
    ELSE UNION {{<<x>> \o rest : rest \in Perms(S \ {x})} : x \in S}

\* the unsigned parameters of a market order
UnsignedSets ==
    {{Param("coin_type", c), Param("amount", a), Param("method", "buy_market")} :
        c \in {"1", "2"}, a \in {"1", "2"}}

UnsignedLists == UNION {Perms(S) : S \in UnsignedSets}

JsonValue(json) == [type |-> "Json", val |-> json]

\* getAuthJSON called with a parameter list; the call remembers the signing
\* that came before it
SignedCall(params, now) ==
    LET c == [op |-> "getAuthJSON", params |-> params, now |-> now,
              prior |-> IF call.op = "getAuthJSON"
                        THEN <<[params |-> call.params, now |-> call.now,
                                request |-> sent[1]]>>
                        ELSE <<>>]
        request == <<getAuthJSON(Url(""), params, <<>>, now)>>
    IN  \E answer \in {TransportError, [kind |-> "json", code |-> 0]} :
            IF answer.kind # "json" THEN Returns(c, request, answer, <<>>, NilValue)
            ELSE Returns(c, request, answer, <<>>, JsonValue(answer))

SignCall == \E params \in UnsignedLists, now \in Clock : SignedCall(params, now)

NextSign == SignCall

SpecSign == Init /\ [][NextSign]_vars

(* ======================================================================= *)
(*                      Properties of the record cache                     *)
(* ======================================================================= *)

\* the last call was a GetRecords that got a decoded kline array to merge
Merged == call.op = "GetRecords" /\ resp.kind = "json"

\* the cap of a GetRecords call: its size argument, 200 when none is passed
Cap == IF Len(call.sizes) > 0 THEN call.sizes[1] ELSE 200

\* the window of the polled period before and after the call
Before == pre.records[call.period]

After == records[call.period]

\* the fetched bars as records, in the vendor's newest-first order
Incoming == [i \in 1..Len(resp.body) |-> NewRecord(resp.body[i])]

Reverse(seq) == [i \in 1..Len(seq) |-> seq[Len(seq) - i + 1]]

LastN(seq, n) == SubSeq(seq, Len(seq) - n + 1, Len(seq))

StrictlyIncreasing(window) ==
    \A i \in 1..(Len(window) - 1) : window[i].Time < window[i + 1].Time

\* timestamp of the last bar of a non-empty window
LastTime(window) == window[Len(window)].Time

\* the incoming bars newer than time t, oldest first
NewerThan(t) == Reverse(SelectSeq(Incoming, LAMBDA b : b.Time > t))

\* the merge the reconciliation rules prescribe: bars older than the last
\* known timestamp stay, the bar at that timestamp takes the fetched values
\* when it was fetched again, newer bars are appended oldest first
Prescribed ==
    IF Before = <<>> THEN Reverse(Incoming)
    ELSE LET L == LastTime(Before)
             same == SelectSeq(Incoming, LAMBDA b : b.Time = L)
             kept == IF same = <<>> THEN Before
                     ELSE [Before EXCEPT ![Len(Before)] = same[1]]
         IN  kept \o NewerThan(L)

\* C1: a GetRecords call with cap N whose merge leaves more than N bars
\* stores and returns exactly the N bars with the greatest timestamps.
C1_CapKeepsNewest ==
    (Merged /\ ~fault /\ Cap >= 0 /\ Len(Prescribed) > Cap)
        => /\ After = LastN(Prescribed, Cap)
           /\ ret = RecordsValue(After)

\* C2: when the fetch holds bars older than, equal to and newer than the
\* last known timestamp L and the cap is not exceeded, the bars older than L
\* stay, the bar at L takes the revised values and every newer bar is
\* appended in chronological order.
C2_MixedMerge ==
    (/\ Merged /\ ~fault /\ Before # <<>>
     /\ \E i \in 1..Len(Incoming) : Incoming[i].Time < LastTime(Before)
     /\ \E i \in 1..Len(Incoming) : Incoming[i].Time = LastTime(Before)
     /\ \E i \in 1..Len(Incoming) : Incoming[i].Time > LastTime(Before)
     /\ Len(Before) + Len(NewerThan(LastTime(Before))) <= Cap)
        => /\ SubSeq(After, 1, Len(Before) - 1) = SubSeq(Before, 1, Len(Before) - 1)
           /\ \E i \in 1..Len(Incoming) : After[Len(Before)] = Incoming[i]
           /\ SubSeq(After, Len(Before) + 1, Len(After)) = NewerThan(LastTime(Before))

\* C3: when the newest fetched bar sits at the last known timestamp and is
\* followed by older bars, the window keeps its length and its last bar
\* carries the fetched values.
C3_UpdateInPlace ==
    (/\ Merged /\ ~fault /\ Before # <<>> /\ Len(Before) <= Cap
     /\ Len(Incoming) >= 2
     /\ Incoming[1].Time = LastTime(Before))
        => /\ Len(After) = Len(Before)
           /\ After[Len(After)] = Incoming[1]

\* C4: on an empty window a fetch of k bars, k not above the cap, stores and
\* returns exactly those bars oldest first.
C4_AppendOnFirstCall ==
    (Merged /\ Before = <<>> /\ Len(Incoming) <= Cap)
        => /\ ~fault
           /\ After = Reverse(Incoming)
           /\ ret = RecordsValue(Reverse(Incoming))

\* three bars fetched newest first into an empty window, stored oldest first
C4_Witness ==
    /\ Merged /\ Before = <<>> /\ Cap = 200
    /\ Len(Incoming) = 3 /\ Incoming[1].Time = 3 /\ Incoming[3].Time = 1
    /\ Len(After) = 3 /\ After[1].Time = 1 /\ After[3].Time = 3

\* C5 as stated: a call that fetches an empty bar sequence and returns never
\* changes the stored window and returns it, whatever the cap.
C5_EmptyMergeAnyCap ==
    (Merged /\ ~fault /\ Incoming = <<>>)
        => /\ records = pre.records
           /\ ret = RecordsValue(Before)

\* C5 amended: a call that fetches an empty bar sequence with a cap not below
\* the window's length leaves every window unchanged and returns the
\* unchanged window.
C5_EmptyMergeWithinCap ==
    (Merged /\ Incoming = <<>> /\ Len(Before) <= Cap)
        => /\ ~fault
           /\ records = pre.records
           /\ ret = RecordsValue(Before)

\* an empty fetch met a window of two bars under a cap of two
C5_Witness ==
    /\ Merged /\ Incoming = <<>> /\ Len(Before) = 2 /\ Cap = 2
    /\ After = Before

\* C6: every per-period window is ordered by strictly increasing timestamp,
\* so it has no duplicate timestamp and its last bar is its newest.
C6_WindowsOrdered ==
    \A period \in DOMAIN records :
        /\ StrictlyIncreasing(records[period])
        /\ \A i \in 1..Len(records[period]) :
               records[period][i].Time <= LastTime(records[period])

\* a fetch overlapping a non-empty window was merged and left three bars
C6_Witness ==
    /\ Merged /\ Before # <<>> /\ Len(After) = 3
    /\ \E i \in 1..Len(Incoming) : Incoming[i].Time <= LastTime(Before)
    /\ \E i \in 1..Len(Incoming) : Incoming[i].Time > LastTime(Before)

\* C7: after a GetRecords call with cap N >= 0 that reaches the merge, the
\* stored window and the returned sequence have at most N bars.
C7_SizeBound ==
    (Merged /\ Cap >= 0)
        => /\ ~fault
           /\ Len(After) <= Cap
           /\ ret.type = "Records" /\ Len(ret.val) <= Cap

\* a window of two bars and a fetch of a newer bar were cut to a cap of one
C7_Witness ==
    /\ Merged /\ Cap = 1 /\ Len(Before) = 2
    /\ \E i \in 1..Len(Incoming) : Incoming[i].Time > LastTime(Before)
    /\ Len(After) = 1 /\ Len(ret.val) = 1

(* ======================================================================= *)
(*                    Properties of the operation surface                  *)
(* ======================================================================= *)

AuthenticatedOps ==
    {"GetAccount", "Buy", "Sell", "GetOrder", "CancelOrder", "GetOrders", "GetTrades"}

\* the value an operation returns when it did not succeed
ZeroValue(op) ==
    IF op \in {"GetAccount", "GetOrder", "GetTicker"} THEN NilValue
    ELSE IF op \in {"Buy", "Sell"} THEN StringValue("")
    ELSE IF op = "CancelOrder" THEN BoolValue(FALSE)
    ELSE IF op \in {"GetOrders", "GetTrades"} THEN OrdersValue(<<>>)
    ELSE RecordsValue(<<>>)

\* the last call was given a symbol or a timeframe that is not supported
UnsupportedInput ==
    \/ /\ call.op \in {"Buy", "Sell", "GetOrder", "GetOrders", "GetTrades",
                       "GetTicker", "GetRecords"}
       /\ call.stockType \notin {"BTC", "LTC"}
    \/ /\ call.op = "CancelOrder"
       /\ call.order.StockType \notin {"BTC", "LTC"}
    \/ /\ call.op = "GetRecords"
       /\ call.period \notin {"M", "M5", "M15", "M30", "H", "D", "W"}

\* C8: an operation called with an unsupported symbol or timeframe issues no
\* HTTP request, returns its zero value and changes no adapter state.
C8_FailFast ==
    UnsupportedInput
        => /\ sent = <<>>
           /\ ret = ZeroValue(call.op)
           /\ records = pre.records
           /\ mainStock = pre.mainStock

\* C9: an operation whose vendor response carries a non-zero status code,
\* positive or negative, returns its zero value.
C9_RejectionIsFailure ==
    (call.op \in AuthenticatedOps /\ resp.kind = "json" /\ resp.code # 0)
        => ret = ZeroValue(call.op)

\* the last call handed a parameter list to the HTTP POST
Posted == call.op \in AuthenticatedOps /\ Len(sent) = 1 /\ sent[1].verb = "POST"

PostedParams == sent[1].params

Keys(params) == {params[i].k : i \in 1..Len(params)}

Has(params, k, v) == \E i \in 1..Len(params) : params[i].k = k /\ params[i].v = v

\* the list is in strictly increasing string order, holds the credentials
\* and the created second, and names the method
SignedSet(params) ==
    /\ \A i \in 1..(Len(params) - 1) : StringLess(params[i], params[i + 1])
    /\ Has(params, "access_key", AccessKey)
    /\ Has(params, "secret_key", SecretKey)
    /\ {"created", "method"} \subseteq Keys(params)
    /\ Keys(params) \cap {"sign", "market"} = {}

\* C10 as stated: the posted list ends with sign=<signature>, and all that
\* precedes it is the sorted set the signature was computed over.
C10_SignIsLast ==
    Posted
        => LET n == Len(PostedParams)
           IN  /\ PostedParams[n].k = "sign"
               /\ PostedParams[n].v = signMd5(SubSeq(PostedParams, 1, n - 1))
               /\ SignedSet(SubSeq(PostedParams, 1, n - 1))

\* the number of parameters an operation posts outside the signed set
Optionals(op) == IF op \in {"GetOrders", "GetTrades"} THEN 0 ELSE 1

\* C10 amended: the posted list is the sorted set, then sign=<signature of
\* that set>, then the operation's unsigned optional parameters: market=cny
\* for GetAccount, Buy, Sell, GetOrder and CancelOrder, nothing for GetOrders
\* and GetTrades.
C10_SignedThenOptionals ==
    Posted
        => LET n == Len(PostedParams) - Optionals(call.op)
           IN  /\ n >= 1
               /\ PostedParams[n].k = "sign"
               /\ PostedParams[n].v = signMd5(SubSeq(PostedParams, 1, n - 1))
               /\ SignedSet(SubSeq(PostedParams, 1, n - 1))
               /\ \A i \in (n + 1)..Len(PostedParams) :
                      PostedParams[i].k = "market" /\ PostedParams[i].v = "cny"

\* a limit buy posted its seven sorted parameters, then sign, then market
C10_Witness ==
    /\ Posted /\ call.op = "Buy" /\ call.price > 0
    /\ Len(PostedParams) = 9
    /\ PostedParams[8].k = "sign"
    /\ PostedParams[9].k = "market"

(* ======================================================================= *)
(*                       Properties of request signing                     *)
(* ======================================================================= *)

\* the last call signed a parameter list and another signing came before it
SignedTwice == call.op = "getAuthJSON" /\ call.prior # <<>>

ParamSet(params) == {params[i] : i \in 1..Len(params)}

\* the sorted list a request was signed over, and its signature
SignedInput(request) == SubSeq(request.params, 1, Len(request.params) - 1)

Signature(request) == request.params[Len(request.params)].v

\* C11: two signings of the same unsigned parameter set, assembled in any
\* order, at the same created second yield the same sorted parameter list and
\* the same signature; a different parameter value or a different created
\* second yields a different signed input and a different signature.
C11_SigningCanonical ==
    SignedTwice
        => LET before == call.prior[1]
               same == /\ ParamSet(before.params) = ParamSet(call.params)
                       /\ before.now = call.now
           IN  /\ same => /\ SignedInput(before.request) = SignedInput(sent[1])
                          /\ Signature(before.request) = Signature(sent[1])
               /\ ~same => /\ SignedInput(before.request) # SignedInput(sent[1])
                           /\ Signature(before.request) # Signature(sent[1])

\* the same parameters were signed twice in the same second in two different
\* assembly orders, with one signature
C11_Witness ==
    /\ SignedTwice
    /\ call.prior[1].params # call.params
    /\ ParamSet(call.prior[1].params) = ParamSet(call.params)
    /\ call.prior[1].now = call.now
    /\ Signature(call.prior[1].request) = Signature(sent[1])

(* ======================================================================= *)
(*                         Properties of the trade log                     *)
(* ======================================================================= *)

TradeTags == {"buy", "sell", "cancel"}

\* the last call logged a trade
TradeLogged == \E i \in 1..Len(logs) : logs[i].tag \in TradeTags

\* the vendor answered the last call and marked it successful
VendorSuccess ==
    /\ resp.kind = "json"
    /\ resp.code = 0
    /\ call.op = "CancelOrder" => resp.result = "success"

\* C12: Buy, Sell and CancelOrder issue at most one POST; they log a trade
\* only when that POST returned a response the vendor marks successful, and
\* every other call logs error entries only.
C12_TradeLogOnSuccessOnly ==
    call.op \in {"Buy", "Sell", "CancelOrder"}
        => /\ Len(sent) <= 1
           /\ TradeLogged => (Len(sent) = 1 /\ VendorSuccess)
           /\ ~VendorSuccess
                  => /\ logs # <<>>
                     /\ \A i \in 1..Len(logs) : logs[i].tag = "error"

(* ======================================================================= *)
(*                       Properties of failing calls                       *)
(* ======================================================================= *)

\* C13: GetRecords returns normally, without a runtime fault, for every cap
\* argument (zero and negative ones too) and every decodable response (bars
\* with short time strings too).
C13_NoRuntimeFault ==
    call.op = "GetRecords" => (~fault /\ ret.type = "Records")

(* ------------------- GetRecords on one feed per symbol ------------------ *)

\* the vendor keeps one kline series per symbol; the bars of a series carry
\* the symbol's code as their prices, which tells the series apart
FeedQuote(stockType) == IF stockType = "BTC" THEN 1 ELSE 2

FeedArrays(stockType) == {KlineArray(S, FeedQuote(stockType)) : S \in SUBSET Times}

FeedResponses(stockType) ==
    {TransportError, Malformed} \cup
    {[kind |-> "json", body |-> a] : a \in FeedArrays(stockType)}

\* a minute-bar request for either symbol, answered from that symbol's series
FeedCall ==
    \E stockType \in DOMAIN stockMap :
        GetRecordsFrom(stockType, "M", <<>>, FeedResponses(stockType))

NextFeeds == FeedCall

SpecFeeds == Init /\ [][NextFeeds]_vars

(* ------------------- GetRecords on several timeframes ------------------- *)

\* requests for the minute bars, the hour bars and an unknown timeframe, for
\* a supported and an unsupported symbol
PeriodsCall ==
    \E stockType \in {"BTC", "ETH"}, period \in {"M", "H", "Y"}, sizes \in SizesArgs :
        GetRecordsFrom(stockType, period, sizes, SmallResponses)

NextPeriods == PeriodsCall

SpecPeriods == Init /\ [][NextPeriods]_vars

(* ---------------- GetRecords called from two goroutines ---------------- *)

\* Each goroutine calls GetRecords("BTC", "M", MaxCap) again and again.  The
\* adapter has no lock, so the calls interleave at every access to
\* e.records["M"]; the variables that record the last sequential call are
\* left alone.
ThreadSteps(t, local) ==
    /\ threads' = [threads EXCEPT ![t] = local]
    /\ UNCHANGED <<mainStock, call, pre, sent, resp, logs, ret, fault>>

\* lines 345-366: the arguments pass, the GET is issued and decoded; a failed
\* fetch returns at once
Fetch(t) ==
    /\ threads[t].pc = "idle"
    /\ \E answer \in SmallResponses :
           IF answer.kind # "json" THEN ThreadSteps(t, Idle)
           ELSE ThreadSteps(t, [Idle EXCEPT !.pc = "fetched", !.array = answer.body])
    /\ overlapped' = (overlapped \/ \E u \in Threads \ {t} : threads[u].pc # "idle")
    /\ UNCHANGED records

\* a read of the last known timestamp that finds none
ReadLastNone(t) ==
    /\ threads[t].pc = "fetched"
    /\ ThreadSteps(t, [threads[t] EXCEPT !.pc = "walking", !.timeLast = 0,
                                         !.i = Len(threads[t].array)])
    /\ UNCHANGED <<records, overlapped>>

\* lines 367-371: read the last known timestamp of the shared window
ReadLast(t) ==
    /\ threads[t].pc = "fetched"
    /\ ThreadSteps(t, [threads[t] EXCEPT !.pc = "walking",
                                         !.timeLast = TimeLast(records["M"]),
                                         !.i = Len(threads[t].array)])
    /\ UNCHANGED <<records, overlapped>>

\* lines 372-396: one turn of the loop; the bar at the last known timestamp is
\* written over the last element the shared window has at that moment
Iterate(t) ==
    LET local == threads[t]
        recordJSON == local.array[local.i]
        recordTime == RecordTime(recordJSON)
    IN  /\ local.pc = "walking"
        /\ IF local.i = 0
           THEN /\ ThreadSteps(t, [local EXCEPT !.pc = "walked"])
                /\ UNCHANGED records
           ELSE IF recordTime > local.timeLast
           THEN /\ ThreadSteps(t, [local EXCEPT !.i = local.i - 1,
                                       !.recordsNew = Append(local.recordsNew,
                                                             NewRecord(recordJSON))])
                /\ UNCHANGED records
           ELSE IF recordTime = local.timeLast
           THEN IF Len(records["M"]) = 0
                THEN /\ ThreadSteps(t, [local EXCEPT !.pc = "dead"])
                     /\ UNCHANGED records
                ELSE /\ ThreadSteps(t, [local EXCEPT !.i = local.i - 1])
                     /\ records' = [records EXCEPT
                                        !["M"][Len(records["M"])] = NewRecord(recordJSON)]
           ELSE /\ ThreadSteps(t, [local EXCEPT !.pc = "walked"])
                /\ UNCHANGED records
        /\ UNCHANGED overlapped

\* line 397: append the new bars to the window the map holds at that moment
Store(t) ==
    /\ threads[t].pc = "walked"
    /\ records' = [records EXCEPT !["M"] = records["M"] \o threads[t].recordsNew]
    /\ ThreadSteps(t, [threads[t] EXCEPT !.pc = "stored"])
    /\ UNCHANGED overlapped

\* lines 398-402: cut the window to the cap and return it
Cut(t) ==
    /\ threads[t].pc = "stored"
    /\ records' = IF Len(records["M"]) > MaxCap
                  THEN [records EXCEPT !["M"] = SubSeq(records["M"], 1, MaxCap)]
                  ELSE records
    /\ ThreadSteps(t, Idle)
    /\ UNCHANGED overlapped

\* the runtime may stop the program when it sees one goroutine write the map
\* while another goroutine is inside its call
Fatal ==
    /\ \E t \in Threads : threads[t].pc \in {"walked", "stored"}
    /\ \A t \in Threads : threads[t].pc \notin {"idle", "dead"}
    /\ threads' = [t \in Threads |-> [threads[t] EXCEPT !.pc = "dead"]]
    /\ UNCHANGED <<mainStock, records, call, pre, sent, resp, logs, ret, fault,
                   overlapped>>

NextConcurrent ==
    \/ \E t \in Threads : Fetch(t)
    \/ \E t \in Threads : ReadLast(t)
    \/ \E t \in Threads : Iterate(t)
    \/ \E t \in Threads : Store(t)
    \/ \E t \in Threads : Cut(t)
    \/ Fatal

SpecConcurrent == Init /\ [][NextConcurrent]_vars

(* ======================================================================= *)
(*                       Properties of the main stock                      *)
(* ======================================================================= *)

\* C14: the main stock is always BTC or LTC: construction keeps a supported
\* configured symbol and replaces an unsupported one by BTC, SetMainStock
\* with a supported symbol sets and returns it, SetMainStock with an
\* unsupported symbol leaves the value alone and returns the current one,
\* and GetMainStock returns the value.
C14_MainStockSupported ==
    /\ mainStock \in {"BTC", "LTC"}
    /\ call.op = "NewHuobi"
           => mainStock = IF call.MainStock \in {"BTC", "LTC"} THEN call.MainStock
                          ELSE "BTC"
    /\ call.op = "SetMainStock"
           => /\ mainStock = IF call.stock \in {"BTC", "LTC"} THEN call.stock
                             ELSE pre.mainStock
              /\ ret = StringValue(mainStock)
    /\ call.op = "GetMainStock"
           => /\ mainStock = pre.mainStock
              /\ ret = StringValue(mainStock)

\* SetMainStock was given ETH while the main stock was LTC, and answered LTC
C14_Witness ==
    /\ call.op = "SetMainStock" /\ call.stock = "ETH"
    /\ pre.mainStock = "LTC"
    /\ mainStock = "LTC" /\ ret = StringValue("LTC")

\* C15: in every GetAccount that returns an account, the derived
\* Stock/FrozenStock pair is the LTC available/frozen pair of the response
\* when the main stock at call time is LTC and the BTC pair when it is BTC;
\* the main stock at call time is always one of the two, so the pair is never
\* left underived.
C15_AccountFollowsMainStock ==
    (call.op = "GetAccount" /\ ret.type = "Account")
        => /\ pre.mainStock \in {"BTC", "LTC"}
           /\ pre.mainStock = "LTC"
                  => /\ ret.val.Stock = resp.available_ltc_display
                     /\ ret.val.FrozenStock = resp.frozen_ltc_display
           /\ pre.mainStock = "BTC"
                  => /\ ret.val.Stock = resp.available_btc_display
                     /\ ret.val.FrozenStock = resp.frozen_btc_display

\* GetAccount answered after SetMainStock had moved the main stock from the
\* constructed BTC to LTC: the pair is the LTC one and differs from the BTC one
C15_Witness ==
    /\ call.op = "GetAccount" /\ ret.type = "Account"
    /\ pre.mainStock = "LTC"
    /\ ret.val.Stock = 7 /\ ret.val.FrozenStock = 2
    /\ ret.val.BTC = 3 /\ ret.val.FrozenBTC = 1

(* ======================================================================= *)
(*                        Frame of the market calls                        *)
(* ======================================================================= *)

\* C17: GetTicker, whatever its symbol, size argument and outcome, leaves the
\* main stock and the record window of every timeframe unchanged.
C17_TickerReadOnly ==
    call.op = "GetTicker"
        => /\ mainStock = pre.mainStock
           /\ \A p \in DOMAIN periodMap : records[p] = pre.records[p]

\* GetTicker returned a ticker while a window held bars, which are still there
C17_Witness ==
    /\ call.op = "GetTicker" /\ ret.type = "Ticker"
    /\ Len(pre.records["M"]) > 0
    /\ records["M"] = pre.records["M"]

\* a GetRecords call that failed: by its symbol, by its timeframe, by the
\* transport or by an undecodable response
FailedFetch == call.op = "GetRecords" /\ resp.kind # "json"

\* C18: a GetRecords call that fails returns the empty sequence, not the
\* cached window, issues at most one GET (none when its arguments are
\* rejected), and leaves the window of every timeframe exactly as it was.
C18_FailedFetchKeepsCache ==
    FailedFetch
        => /\ ret.type = "Records" /\ Len(ret.val) = 0
           /\ ~fault
           /\ Len(sent) <= 1
           /\ \A i \in 1..Len(sent) : sent[i].verb = "GET"
           /\ (call.stockType \notin DOMAIN stockMap \/ call.period \notin DOMAIN periodMap)
                  => Len(sent) = 0
           /\ \A p \in DOMAIN periodMap : records[p] = pre.records[p]

\* the transport failed while the window of the timeframe held bars: the call
\* returned the empty sequence and the bars are still cached
C18_Witness ==
    /\ FailedFetch /\ resp.kind = "error"
    /\ Len(sent) = 1
    /\ Len(pre.records[call.period]) > 0
    /\ Len(ret.val) = 0
    /\ records[call.period] = pre.records[call.period]

(* ======================================================================= *)
(*                       Isolation of the record cache                     *)
(* ======================================================================= *)

\* C19: the window GetRecords returns for a symbol holds only bars fetched for
\* that symbol, and holds every bar of the answer that is newer than the bars
\* of that symbol it held before: bars of the other symbol are neither
\* returned nor allowed to suppress the merge.
C19_SymbolIsolation ==
    (call.op = "GetRecords" /\ resp.kind = "json" /\ ret.type = "Records")
        => /\ \A i \in 1..Len(ret.val) : ret.val[i].Open = FeedQuote(call.stockType)
           /\ \A j \in 1..Len(resp.body) :
                  (\A i \in 1..Len(pre.records["M"]) :
                       pre.records["M"][i].Open = FeedQuote(call.stockType)
                           => pre.records["M"][i].Time < RecordTime(resp.body[j]))
                      => \E i \in 1..Len(ret.val) :
                             ret.val[i].Time = RecordTime(resp.body[j])

\* C20: a GetRecords call for one timeframe, whatever its outcome, leaves the
\* window of every other timeframe unchanged, and the window it stores for
\* its own timeframe is the reconciliation of that timeframe's previous
\* window with the answer under the call's cap: no other window takes part.
C20_PeriodIsolation ==
    call.op = "GetRecords"
        => /\ \A q \in DOMAIN periodMap :
                  q # call.period => records[q] = pre.records[q]
           /\ Merged => After = Reconcile(Before, resp.body, Cap).window

\* an hour-bar call appended the bar of minute 2 after its last bar of minute
\* 1 although the minute window already ended at minute 2; the minute window
\* is as it was
C20_Witness ==
    /\ Merged /\ ~fault /\ call.period = "H"
    /\ Len(Before) > 0 /\ Len(pre.records["M"]) > 0
    /\ LastTime(Before) = 1 /\ LastTime(pre.records["M"]) = 2
    /\ Len(After) = Len(Before) + 1 /\ LastTime(After) = 2
    /\ records["M"] = pre.records["M"]

(* ======================================================================= *)
(*                     GetRecords from several goroutines                  *)
(* ======================================================================= *)

\* C16: as long as the GetRecords calls of the goroutines were serialized (no
\* call began while another was running), the minute window has strictly
\* increasing timestamps at every moment; a window with a repeated or
\* decreasing timestamp is reachable once two calls interleave (C16_Witness).
C16_SerializedIsSafe ==
    ~overlapped => StrictlyIncreasing(records["M"])

\* two calls ran at once, both have returned, and the window they left holds
\* a timestamp that does not exceed its predecessor
C16_Witness ==
    /\ overlapped
    /\ \A t \in Threads : threads[t].pc = "idle"
    /\ ~StrictlyIncreasing(records["M"])

====
